---- MODULE Spec2Model ----
(***************************************************************************)
(* A model of the UE Clangd Helper extension (src/src/extension.ts).       *)
(*                                                                         *)
(* Strings whose structure the code inspects (file names, paths) are       *)
(* sequences of atoms; an atom is a run of characters that holds neither   *)
(* a dot nor a path separator, or the dot "." itself, or the separator     *)
(* "/".  Concatenation of strings is \o, so endsWith, includes and         *)
(* path.parse are computed on the atoms the way the code computes them on  *)
(* characters.                                                             *)
(***************************************************************************)
EXTENDS Integers, Sequences, FiniteSets, TLC

VARIABLES
    workspaceFolders,   \* vscode.workspace.workspaceFolders, as the file system shows them
    pathsResult,        \* what a lone call of getWorkspacePaths returned
    diagnostics,        \* the host's diagnostics of one file
    phantomResult,      \* what a lone call of hasPhantomErrors returned
    manifest,           \* the file <projectRoot>/.vscode/tasks.json
    vscodeDir,          \* whether the directory <projectRoot>/.vscode exists
    lastInject,         \* history: the calls of injectTasks so far, and the last one
    config,             \* the host's configuration section ueClangdHelper
    env,                \* what the file system and the host allow (see Environment)
    hostTasks,          \* the task list vscode.tasks.fetchTasks resolves to
    running,            \* names of the tasks executeTask started that have not ended
    engineDb,           \* <engineRoot>/compile_commands.json
    projectDb,          \* <projectRoot>/compile_commands.json
    procs               \* the command and event handler invocations in flight

vars == <<workspaceFolders, pathsResult, diagnostics, phantomResult,
          manifest, vscodeDir, lastInject, config, env, hostTasks, running,
          engineDb, projectDb, procs>>

\* ---------------------------------------------------------------- bounds
MaxFolders == 2
MaxDiags == 2
MaxTasks == 3
MaxInjects == 2
NProcs == 2

\* ---------------------------------------------------------------- strings
DOT == "."
SEP == "/"
UPROJECT == "uproject"

Str(a) == <<a>>

\* String.prototype.endsWith
EndsWith(s, suffix) ==
    /\ Len(s) >= Len(suffix)
    /\ SubSeq(s, Len(s) - Len(suffix) + 1, Len(s)) = suffix

\* String.prototype.includes
Includes(s, part) ==
    \E i \in 0..(Len(s) - Len(part)) : SubSeq(s, i + 1, i + Len(part)) = part

\* path.join of a directory and further segments
PathJoin(dir, segs) ==
    LET RECURSIVE J(_, _)
        J(acc, i) == IF i > Len(segs) THEN acc
                     ELSE J(acc \o <<SEP>> \o segs[i], i + 1)
    IN J(dir, 1)

\* Array.prototype.find / findIndex, given the test's result on each
\* element: the first index whose element satisfies the test, 0 when there
\* is none.
FirstIndex(tests) ==
    IF \E i \in 1..Len(tests) : tests[i]
    THEN CHOOSE i \in 1..Len(tests) :
            /\ tests[i]
            /\ \A j \in 1..(i - 1) : ~tests[j]
    ELSE 0

\* path.parse(base).name for a base name without separators: the name up to
\* its last dot; the whole name when it has no dot, when its only dot is its
\* first character (a dotfile), or when it is "..".
LastDot(base) ==
    IF \E i \in 1..Len(base) : base[i] = DOT
    THEN CHOOSE i \in 1..Len(base) :
            /\ base[i] = DOT
            /\ \A j \in (i + 1)..Len(base) : base[j] # DOT
    ELSE 0

ParsedName(base) ==
    LET d == LastDot(base) IN
    IF \/ d = 0
       \/ d = 1
       \/ (base[1] = DOT /\ d = Len(base) /\ d = 2)
    THEN base
    ELSE SubSeq(base, 1, d - 1)

\* ---------------------------------------------------------------- path resolver
\* A workspace folder as the file system shows it: stat is "dir", "file"
\* (statSync says it is no directory) or "error" (statSync or readdirSync
\* throws); files is what readdirSync lists; buildBat tells whether
\* Engine/Build/BatchFiles/Build.bat exists under it.
NoPaths == [found |-> FALSE, projectRoot |-> <<>>, engineRoot |-> <<>>, projectName |-> <<>>]

IsDescriptor(f) == EndsWith(f, <<DOT, UPROJECT>>)

\* One iteration of the loop over the workspace folders.
ScanFolder(acc, folder) ==
    IF folder.stat # "dir" THEN acc
    ELSE
        LET u == FirstIndex([k \in 1..Len(folder.files) |-> IsDescriptor(folder.files[k])])
            a1 == IF u # 0
                  THEN [acc EXCEPT !.projectRoot = folder.fsPath,
                                   !.projectName = ParsedName(folder.files[u])]
                  ELSE acc
        IN IF folder.buildBat THEN [a1 EXCEPT !.engineRoot = folder.fsPath] ELSE a1

getWorkspacePaths(ws) ==
    IF ~ws.defined THEN NoPaths
    ELSE
        LET RECURSIVE Scan(_, _)
            Scan(acc, i) == IF i > Len(ws.list) THEN acc
                            ELSE Scan(ScanFolder(acc, ws.list[i]), i + 1)
            r == Scan(NoPaths, 1)
        IN IF r.projectRoot # <<>> /\ r.engineRoot # <<>> /\ r.projectName # <<>>
           THEN [r EXCEPT !.found = TRUE]
           ELSE NoPaths

\* ---------------------------------------------------------------- phantom-error detector
\* vscode.DiagnosticSeverity
SeverityError == 0
SeverityWarning == 1
SeverityHint == 3

\* A diagnostic's code: t is what typeof says of it ("null" for null, which
\* typeof calls an object); an object's value is a string (vt = "string", s)
\* or a number (vt = "number", n).
\* String(v) of a value.
StringOf(c) == IF c.vt = "string" THEN c.s ELSE ToString(c.n)

ErrorCodeOf(diagnostic) ==
    LET c == diagnostic.code IN
    IF c.t = "string" THEN c.s
    ELSE IF c.t = "object" THEN StringOf(c)
    ELSE ""

\* IsPhantom without the test of the severity.
IsPhantomAnySeverity(diagnostic) ==
    ErrorCodeOf(diagnostic) \in {"ovl_deleted_init", "missing_type_specifier"}

IsPhantom(diagnostic) ==
    /\ diagnostic.severity = SeverityError
    /\ ErrorCodeOf(diagnostic) \in {"ovl_deleted_init", "missing_type_specifier"}

hasPhantomErrors(diags) == \E i \in 1..Len(diags) : IsPhantom(diags[i])

\* ---------------------------------------------------------------- task injector
TASK_GENERATE == "Generate Clang CompileCommands"
TASK_UHT == "Refresh UHT Generated Headers"
TASK_RESTART == "Restart Clangd"
TASK_COMPOUND == "Fix Header False Errors"

Undefined == "<undefined>"

\* An element of a manifest's task list: an object (k = "object"; its label is
\* Undefined when it has none), null, or a primitive.
TaskObject(label, type, command, args, dependsOn) ==
    [k |-> "object", label |-> label, type |-> type, command |-> command,
     args |-> args, dependsOn |-> dependsOn]

newTasks(paths) ==
    LET editor == paths.projectName \o Str("Editor")
        buildBat == PathJoin(paths.engineRoot,
                        <<Str("Engine"), Str("Build"), Str("BatchFiles"), <<"Build", DOT, "bat">>>>)
        uproject == PathJoin(paths.projectRoot, <<paths.projectName \o <<DOT, UPROJECT>>>>)
        uhtManifest == PathJoin(paths.projectRoot,
                        <<Str("Intermediate"), Str("Build"), Str("Win64"), editor,
                          Str("Development"), editor \o <<DOT, "uhtmanifest">>>>)
    IN <<
        TaskObject(TASK_GENERATE, "shell", buildBat,
            <<editor, Str("Win64"), Str("Development"), Str("-project=") \o uproject,
              Str("-mode=GenerateClangDatabase"), Str("-game"), Str("-rocket"),
              Str("-progress"), Str("-UsePrecompiled")>>, <<>>),
        TaskObject(TASK_UHT, "shell", buildBat,
            <<Str("-Mode=UnrealHeaderTool"), uproject, uhtManifest, Str("-WarningsAsErrors")>>, <<>>),
        TaskObject(TASK_RESTART, Undefined, Str("${command:clangd.restart}"), <<>>, <<>>),
        TaskObject(TASK_COMPOUND, Undefined, <<>>, <<>>, <<TASK_UHT, TASK_RESTART>>)
    >>

\* A file's text is kept as the JSON value it parses to (json) and whether
\* the text is what JSON.stringify(value, null, 4) prints (canonical).
\* json.k: "invalid" (JSON.parse throws), "null", "primitive", "array" or
\* "object"; of an object, rest stands for its members other than tasks (the
\* version tag among them) and tasks for its member tasks: t is "missing",
\* "falsy" (null, false, 0, ""), "other" (true, a number, a string, an
\* object) or "array" (with its items).
TaskList(items) == [t |-> "array", items |-> items]
NoTaskList(t) == [t |-> t, items |-> <<>>]
Json(k, rest, tasks) == [k |-> k, rest |-> rest, tasks |-> tasks]
DefaultTasksJson == Json("object", "version 2.0.0", TaskList(<<>>))
NoFile == [exists |-> FALSE, canonical |-> FALSE, json |-> Json("invalid", "", NoTaskList("missing"))]
TextFile(canonical, json) == [exists |-> TRUE, canonical |-> canonical, json |-> json]

\* Lines 196-207: the manifest as loaded. JSON.parse throws on text that is
\* no JSON; reading .tasks of null throws; setting .tasks on a primitive
\* throws in strict mode (the file is an ES module); each is caught and gives
\* the default. An array or an object without a truthy tasks member gets
\* tasks = [].
LoadTasksJson(file) ==
    IF ~file.exists THEN DefaultTasksJson
    ELSE IF file.json.k \in {"invalid", "null", "primitive"} THEN DefaultTasksJson
    ELSE IF file.json.tasks.t \in {"missing", "falsy"}
         THEN [file.json EXCEPT !.tasks = TaskList(<<>>)]
    ELSE file.json

\* Lines 210-217: one round of the forEach. The result is the new item list
\* and whether the round threw: findIndex reads .label of every item up to
\* the first match, and reading a member of null is a TypeError.
\* MergeOne with the replacement left out: every new task is appended.
MergeOneAppends(items, nt) ==
    IF \E j \in 1..Len(items) : items[j].k = "null"
    THEN [threw |-> TRUE, items |-> items]
    ELSE [threw |-> FALSE, items |-> Append(items, nt)]

\* MergeOne with the else left out: a replaced task is appended too.
MergeOneAlsoAppends(items, nt) ==
    LET idx == FirstIndex([k \in 1..Len(items) |-> items[k].k = "object" /\ items[k].label = nt.label])
        upto == IF idx = 0 THEN Len(items) ELSE idx
    IN IF \E j \in 1..upto : items[j].k = "null"
       THEN [threw |-> TRUE, items |-> items]
       ELSE IF idx # 0
            THEN [threw |-> FALSE, items |-> Append([items EXCEPT ![idx] = nt], nt)]
            ELSE [threw |-> FALSE, items |-> Append(items, nt)]

MergeOne(items, nt) ==
    LET idx == FirstIndex([k \in 1..Len(items) |-> items[k].k = "object" /\ items[k].label = nt.label])
        upto == IF idx = 0 THEN Len(items) ELSE idx
    IN IF \E j \in 1..upto : items[j].k = "null"
       THEN [threw |-> TRUE, items |-> items]
       ELSE IF idx # 0
            THEN [threw |-> FALSE, items |-> [items EXCEPT ![idx] = nt]]
            ELSE [threw |-> FALSE, items |-> Append(items, nt)]

MergeTasks(tasks, nts) ==
    LET RECURSIVE M(_, _)
        M(acc, i) == IF i > Len(nts) \/ acc.threw THEN acc
                     ELSE M(MergeOne(acc.items, nts[i]), i + 1)
    IN IF tasks.t # "array"
       THEN [threw |-> TRUE, items |-> <<>>]     \* tasks.findIndex is not a function
       ELSE M([threw |-> FALSE, items |-> tasks.items], 1)

\* JSON.stringify(tasksJson, null, 4): of an array only its elements are
\* printed, so the tasks member set on it is lost.
Stringify(tasksJson, merged) ==
    IF tasksJson.k = "array" THEN TextFile(TRUE, [tasksJson EXCEPT !.tasks = NoTaskList("missing")])
    ELSE TextFile(TRUE, [tasksJson EXCEPT !.tasks = TaskList(merged)])

\* injectTasks(paths) on the manifest file: whether it threw, and the file after.
injectTasks(paths, file) ==
    LET tasksJson == LoadTasksJson(file)
        m == MergeTasks(tasksJson.tasks, newTasks(paths))
    IN IF m.threw THEN [threw |-> TRUE, file |-> file]
       ELSE [threw |-> FALSE, file |-> Stringify(tasksJson, m.items)]

\* ---------------------------------------------------------------- handlers
\* A handler invocation: which handler (kind), where it is suspended (pc),
\* what it has shown, written and requested so far (log), and the event it
\* was called with (arg).
Procs == 1..NProcs

NoTask == [name |-> "", n |-> 0]
Ev(e) == [e |-> e, task |-> NoTask]
ExecEv(t) == [e |-> "executeTask", task |-> t]
Has(log, e) == \E i \in 1..Len(log) : log[i].e = e
Count(log, e) == Cardinality({i \in 1..Len(log) : log[i].e = e})

NoArg == [taskName |-> "", fileName |-> <<>>]
IdleProc == [kind |-> "none", pc |-> "idle", log |-> <<>>, arg |-> NoArg]
CanStart(p) == procs[p].pc \in {"idle", "done"}

\* The history of injectTasks calls: n counts them (up to MaxInjects), threw
\* and before are the last call's outcome and the manifest file it found.
NoInject == [n |-> 0, threw |-> FALSE, before |-> NoFile]
Injected(r, before) == [n |-> IF lastInject.n < MaxInjects THEN lastInject.n + 1 ELSE MaxInjects,
                        threw |-> r.threw, before |-> before]

\* Lines 80-100 of runSetup: the messages and writes of the config-install
\* step. createFile throws when the destination cannot be written.
ConfigInstall ==
    IF ~config.generateConfigs THEN <<>>
    ELSE IF ~env.readClangd \/ ~env.readFormat
         THEN <<Ev("error:templates")>>
    ELSE IF "project/.clangd" \notin env.writable
         THEN <<Ev("write:project/.clangd:failed"), Ev("error:templates")>>
    ELSE IF "project/.clang-format" \notin env.writable
         THEN <<Ev("write:project/.clangd"), Ev("write:project/.clang-format:failed"),
                Ev("error:templates")>>
    ELSE IF "engine/.clangd" \notin env.writable
         THEN <<Ev("write:project/.clangd"), Ev("write:project/.clang-format"),
                Ev("write:engine/.clangd:failed"), Ev("warning:engine")>>
    ELSE <<Ev("write:project/.clangd"), Ev("write:project/.clang-format"),
           Ev("write:engine/.clangd")>>

\* The inject step shared by Setup and Refresh Headers: injectTasks has no
\* await in it, so its read, merge and write happen in one turn of the event
\* loop. mkdirSync comes before the read, so the directory exists even when
\* the merge throws.
InjectStep(paths) ==
    LET r == injectTasks(paths, manifest) IN
    /\ manifest' = r.file
    /\ vscodeDir' = TRUE
    /\ lastInject' = Injected(r, manifest)

EnvUnchanged == UNCHANGED <<workspaceFolders, config, env, diagnostics>>
LoneUnchanged == UNCHANGED <<pathsResult, phantomResult>>

\* Lines 13-15, 71-104: the Setup command up to its wait.
SetupStart(p) ==
    /\ CanStart(p)
    /\ LET paths == getWorkspacePaths(workspaceFolders) IN
       IF ~paths.found
       THEN /\ procs' = [procs EXCEPT ![p] =
                    [kind |-> "setup", pc |-> "done", log |-> <<Ev("error:missingPaths")>>, arg |-> NoArg]]
            /\ UNCHANGED <<manifest, vscodeDir, lastInject>>
       ELSE /\ InjectStep(paths)
            /\ procs' = [procs EXCEPT ![p] =
                    IF injectTasks(paths, manifest).threw
                    THEN [kind |-> "setup", pc |-> "done",
                          log |-> ConfigInstall \o <<Ev("rejected")>>, arg |-> NoArg]
                    ELSE [kind |-> "setup", pc |-> "delay",
                          log |-> ConfigInstall \o <<Ev("injectTasks")>>, arg |-> NoArg]]
    /\ UNCHANGED <<hostTasks, running, engineDb, projectDb>>
    /\ EnvUnchanged /\ LoneUnchanged

\* Lines 104-106, 115: the timer fires and triggerTask asks the host for its tasks.
SetupTimer(p) ==
    /\ procs[p].kind = "setup" /\ procs[p].pc = "delay"
    /\ procs' = [procs EXCEPT ![p].pc = "fetch",
                              ![p].log = @ \o <<Ev("delay"), Ev("fetchTasks")>>]
    /\ UNCHANGED <<manifest, vscodeDir, lastInject, hostTasks, running, engineDb, projectDb>>
    /\ EnvUnchanged /\ LoneUnchanged

\* Lines 18-25: the Refresh Files command up to triggerTask's fetch.
RefreshFilesStart(p) ==
    /\ CanStart(p)
    /\ procs' = [procs EXCEPT ![p] =
            IF ~getWorkspacePaths(workspaceFolders).found
            THEN [kind |-> "refreshFiles", pc |-> "done", log |-> <<Ev("error:missingPaths")>>, arg |-> NoArg]
            ELSE [kind |-> "refreshFiles", pc |-> "fetch", log |-> <<Ev("fetchTasks")>>, arg |-> NoArg]]
    /\ UNCHANGED <<manifest, vscodeDir, lastInject, hostTasks, running, engineDb, projectDb>>
    /\ EnvUnchanged /\ LoneUnchanged

\* Lines 28-36: the Refresh Headers command up to triggerTask's fetch.
RefreshHeadersStart(p) ==
    /\ CanStart(p)
    /\ LET paths == getWorkspacePaths(workspaceFolders) IN
       IF ~paths.found
       THEN /\ procs' = [procs EXCEPT ![p] =
                    [kind |-> "refreshHeaders", pc |-> "done", log |-> <<Ev("error:missingPaths")>>, arg |-> NoArg]]
            /\ UNCHANGED <<manifest, vscodeDir, lastInject>>
       ELSE /\ InjectStep(paths)
            /\ procs' = [procs EXCEPT ![p] =
                    IF injectTasks(paths, manifest).threw
                    THEN [kind |-> "refreshHeaders", pc |-> "done", log |-> <<Ev("rejected")>>, arg |-> NoArg]
                    ELSE [kind |-> "refreshHeaders", pc |-> "fetch",
                          log |-> <<Ev("injectTasks"), Ev("fetchTasks")>>, arg |-> NoArg]]
    /\ UNCHANGED <<hostTasks, running, engineDb, projectDb>>
    /\ EnvUnchanged /\ LoneUnchanged

\* FindTask taking the last task of the name instead of the first.
FindTaskLast(tasks, taskName) ==
    IF \E i \in 1..Len(tasks) : tasks[i].name = taskName
    THEN CHOOSE i \in 1..Len(tasks) :
            /\ tasks[i].name = taskName
            /\ \A j \in (i + 1)..Len(tasks) : tasks[j].name # taskName
    ELSE 0

\* Line 116: tasks.find(t => t.name === taskName), as an index into the list.
FindTask(tasks, taskName) == FirstIndex([k \in 1..Len(tasks) |-> tasks[k].name = taskName])

\* The task each handler triggers.
TriggerLabel(kind) == IF kind \in {"setup", "refreshFiles"} THEN TASK_GENERATE ELSE TASK_COMPOUND

\* Lines 115-121 (and 108 for Setup): fetchTasks resolves and triggerTask
\* goes on. executeTask is not awaited.
FetchResolves(p) ==
    /\ procs[p].pc = "fetch"
    /\ LET idx == FindTask(hostTasks, TriggerLabel(procs[p].kind))
           did == IF idx # 0 THEN <<ExecEv(hostTasks[idx])>> ELSE <<Ev("error:taskNotFound")>>
           info == IF procs[p].kind = "setup" THEN <<Ev("info:setupInitiated")>> ELSE <<>>
       IN /\ procs' = [procs EXCEPT ![p].pc = "done", ![p].log = @ \o did \o info]
          /\ running' = IF idx # 0 THEN running \cup {hostTasks[idx].name} ELSE running
    /\ UNCHANGED <<manifest, vscodeDir, lastInject, hostTasks, engineDb, projectDb>>
    /\ EnvUnchanged /\ LoneUnchanged

\* The documents the user saves.
ProjectDir == <<SEP, "Proj">>
EngineDir == <<SEP, "UE">>
HeaderInSource == ProjectDir \o <<SEP, "Source", SEP, "Actor", DOT, "h">>
CppInSource == ProjectDir \o <<SEP, "Source", SEP, "Actor", DOT, "cpp">>
HeaderInSourceOld == ProjectDir \o <<SEP, "Source", "Old", SEP, "Actor", DOT, "h">>
HeaderInConfig == ProjectDir \o <<SEP, "Config", SEP, "Actor", DOT, "h">>
SavedDocuments == {HeaderInSource, CppInSource, HeaderInSourceOld, HeaderInConfig}

\* Lines 49-66: the save watcher up to triggerTask's fetch.
OnSave(p) ==
    /\ CanStart(p)
    /\ \E fileName \in SavedDocuments :
        LET projectPaths == getWorkspacePaths(workspaceFolders)
            isHeader == EndsWith(fileName, <<DOT, "h">>)
            isInSource == Includes(fileName, PathJoin(projectPaths.projectRoot, <<Str("Source")>>))
            trigger == /\ config.autoFixOnSave
                       /\ projectPaths.found
                       /\ isHeader /\ isInSource
                       /\ hasPhantomErrors(diagnostics)
        IN procs' = [procs EXCEPT ![p] =
                [kind |-> "save",
                 pc |-> IF trigger THEN "fetch" ELSE "done",
                 log |-> IF trigger THEN <<Ev("fetchTasks")>> ELSE <<>>,
                 arg |-> [NoArg EXCEPT !.fileName = fileName]]]
    /\ UNCHANGED <<manifest, vscodeDir, lastInject, hostTasks, running, engineDb, projectDb>>
    /\ EnvUnchanged /\ LoneUnchanged

\* Lines 124-143: syncCompileCommands up to its await, on the file system as
\* it is when the task has ended (db is the engine-root database then).
SyncStart(db) ==
    IF ~getWorkspacePaths(workspaceFolders).found THEN [pc |-> "done", log |-> <<>>, copied |-> FALSE]
    ELSE IF db = "absent" THEN [pc |-> "done", log |-> <<Ev("warning:noSource")>>, copied |-> FALSE]
    ELSE IF ~env.copyOk
         THEN [pc |-> "done", log |-> <<Ev("copyFile:failed"), Ev("error:copyFailed")>>, copied |-> FALSE]
    ELSE [pc |-> "restart", log |-> <<Ev("copyFile"), Ev("info:synced"), Ev("restart")>>, copied |-> TRUE]

\* Lines 39-46: a task the host ran ends and the task watcher is called.
\* The generation task may have written the engine-root database.
OnTaskEnd(p) ==
    /\ CanStart(p)
    /\ \E name \in running :
        /\ running' = running \ {name}
        /\ \E db \in (IF name = TASK_GENERATE THEN {engineDb, "db1"} ELSE {engineDb}) :
            LET sync == IF name = TASK_GENERATE /\ config.syncCompileCommands
                        THEN SyncStart(db)
                        ELSE [pc |-> "done", log |-> <<>>, copied |-> FALSE]
            IN /\ engineDb' = db
               /\ projectDb' = IF sync.copied THEN db ELSE projectDb
               /\ procs' = [procs EXCEPT ![p] =
                       [kind |-> "taskEnd", pc |-> sync.pc, log |-> sync.log,
                        arg |-> [NoArg EXCEPT !.taskName = name]]]
    /\ UNCHANGED <<manifest, vscodeDir, lastInject, hostTasks>>
    /\ EnvUnchanged /\ LoneUnchanged

\* Lines 136-139: the clangd.restart command settles. When it rejects (no
\* such command: the clangd extension is missing) the await throws inside
\* the try and the catch reports a failed copy.
RestartSettles(p) ==
    /\ procs[p].pc = "restart"
    /\ procs' = [procs EXCEPT ![p].pc = "done",
                              ![p].log = IF env.clangdRestarts THEN @
                                         ELSE @ \o <<Ev("restart:rejected"), Ev("error:copyFailed")>>]
    /\ UNCHANGED <<manifest, vscodeDir, lastInject, hostTasks, running, engineDb, projectDb>>
    /\ EnvUnchanged /\ LoneUnchanged

\* The host: it rereads tasks.json some time after it changed and lists its
\* labelled tasks in their order.
WorkspaceTasks(file) ==
    IF file.exists /\ file.json.k = "object" /\ file.json.tasks.t = "array"
    THEN LET items == file.json.tasks.items
             RECURSIVE W(_, _)
             W(acc, i) == IF i > Len(items) THEN acc
                          ELSE IF items[i].k = "object" /\ items[i].label # Undefined
                               THEN W(Append(acc, [name |-> items[i].label, n |-> i]), i + 1)
                               ELSE W(acc, i + 1)
         IN W(<<>>, 1)
    ELSE <<>>

HostReloadsTasks ==
    /\ hostTasks # WorkspaceTasks(manifest)
    /\ hostTasks' = WorkspaceTasks(manifest)
    /\ UNCHANGED <<manifest, vscodeDir, lastInject, running, engineDb, projectDb, procs>>
    /\ EnvUnchanged /\ LoneUnchanged

\* ---------------------------------------------------------------- lone calls
NotCalled(v) == [done |-> FALSE, value |-> v]
Returned(v) == [done |-> TRUE, value |-> v]

\* getWorkspacePaths() called on the workspace as it is.
ResolvePaths ==
    /\ ~pathsResult.done
    /\ pathsResult' = Returned(getWorkspacePaths(workspaceFolders))
    /\ UNCHANGED <<workspaceFolders, diagnostics, phantomResult, manifest, vscodeDir, lastInject,
                   config, env, hostTasks, running, engineDb, projectDb, procs>>

\* hasPhantomErrors(uri) called on the host's diagnostics as they are.
CheckPhantom ==
    /\ ~phantomResult.done
    /\ phantomResult' = Returned(hasPhantomErrors(diagnostics))
    /\ UNCHANGED <<workspaceFolders, pathsResult, diagnostics, manifest, vscodeDir, lastInject,
                   config, env, hostTasks, running, engineDb, projectDb, procs>>

\* injectTasks(paths) called on the manifest file as it is.
LoneInject ==
    /\ lastInject.n < MaxInjects
    /\ getWorkspacePaths(workspaceFolders).found
    /\ InjectStep(getWorkspacePaths(workspaceFolders))
    /\ UNCHANGED <<workspaceFolders, pathsResult, diagnostics, phantomResult,
                   config, env, hostTasks, running, engineDb, projectDb, procs>>

\* ---------------------------------------------------------------- inputs
Folder(fsPath, stat, files, buildBat) ==
    [fsPath |-> fsPath, stat |-> stat, files |-> files, buildBat |-> buildBat]
Workspace(list) == [defined |-> TRUE, list |-> list]
NoWorkspace == [defined |-> FALSE, list |-> <<>>]

ProjUproject == <<"Proj", DOT, UPROJECT>>
OtherUproject == <<"Other", DOT, UPROJECT>>
DottedUproject == <<"My", DOT, "Game", DOT, UPROJECT>>
BareUproject == <<DOT, UPROJECT>>
Readme == <<"README", DOT, "md">>
NotQuiteUproject == <<"Proj", UPROJECT>>

GoodWorkspace == Workspace(<<Folder(ProjectDir, "dir", <<Readme, ProjUproject>>, FALSE),
                             Folder(EngineDir, "dir", <<>>, TRUE)>>)
NoEngineWorkspace == Workspace(<<Folder(ProjectDir, "dir", <<ProjUproject>>, FALSE)>>)
GoodPaths == getWorkspacePaths(GoodWorkspace)

FolderPaths == {ProjectDir, EngineDir, <<SEP, "Other">>}
FileLists == {<<>>, <<Readme, NotQuiteUproject>>, <<Readme, ProjUproject>>,
              <<OtherUproject, ProjUproject>>, <<DottedUproject>>, <<BareUproject>>}
Folders == {Folder(d, st, fl, b) : d \in FolderPaths, st \in {"dir", "file", "error"},
                                   fl \in FileLists, b \in BOOLEAN}
FolderLists ==
    UNION {{l \in [1..n -> Folders] : \A i, j \in 1..n : i # j => l[i].fsPath # l[j].fsPath}
           : n \in 0..MaxFolders}
Workspaces == {NoWorkspace} \cup {Workspace(l) : l \in FolderLists}

Code(t, vt, str, num) == [t |-> t, vt |-> vt, s |-> str, n |-> num]
Codes ==
    {Code("string", "string", str, 0) : str \in {"ovl_deleted_init", "missing_type_specifier", "ovl_deleted_init2", ""}}
    \cup {Code("object", "string", str, 0) : str \in {"ovl_deleted_init", "missing_type_specifier", "unused"}}
    \cup {Code("object", "number", "", 42), Code("number", "number", "", 42),
          Code("undefined", "", "", 0), Code("null", "", "", 0)}
Diagnostics == {[severity |-> sv, code |-> c] : sv \in {SeverityError, SeverityWarning, SeverityHint}, c \in Codes}
DiagnosticLists == UNION {[1..n -> Diagnostics] : n \in 0..MaxDiags}
PhantomDiagnostic == [severity |-> SeverityError, code |-> Code("object", "string", "ovl_deleted_init", 0)]

UserTask(label, command) == TaskObject(label, "shell", Str(command), <<>>, <<>>)
NullItem == [k |-> "null", label |-> Undefined, type |-> Undefined, command |-> <<>>,
             args |-> <<>>, dependsOn |-> <<>>]
PrimitiveItem == [NullItem EXCEPT !.k = "primitive"]
Items == {UserTask("Foo", "make"), UserTask("Foo", "ninja"), UserTask(Undefined, "make"),
          UserTask(TASK_GENERATE, "old"), UserTask(TASK_UHT, "old"),
          UserTask(TASK_RESTART, "old"), UserTask(TASK_COMPOUND, "old"),
          NullItem, PrimitiveItem}
ItemLists == UNION {[1..n -> Items] : n \in 0..MaxTasks}
Manifests ==
    {NoFile}
    \cup {TextFile(c, Json(k, "", NoTaskList("missing"))) :
            c \in BOOLEAN, k \in {"invalid", "null", "primitive", "array"}}
    \cup {TextFile(c, Json("object", rest, NoTaskList(t))) :
            c \in BOOLEAN, rest \in {"version 2.0.0", "version 2.0.0, inputs"}, t \in {"missing", "falsy", "other"}}
    \cup {TextFile(c, Json("object", rest, TaskList(l))) :
            c \in BOOLEAN, rest \in {"version 2.0.0", "version 2.0.0, inputs"}, l \in ItemLists}

\* What the file system and the host allow: whether each bundled template
\* can be read, which config destinations can be written, whether
\* compile_commands.json can be copied, and whether the host knows the
\* command clangd.restart.
Environment(readClangd, readFormat, writable, copyOk, clangdRestarts) ==
    [readClangd |-> readClangd, readFormat |-> readFormat, writable |-> writable,
     copyOk |-> copyOk, clangdRestarts |-> clangdRestarts]
Destinations == {"project/.clangd", "project/.clang-format", "engine/.clangd"}
Config(generateConfigs, syncCompileCommands, autoFixOnSave) ==
    [generateConfigs |-> generateConfigs, syncCompileCommands |-> syncCompileCommands,
     autoFixOnSave |-> autoFixOnSave]

\* ---------------------------------------------------------------- specifications
HandlersIdle ==
    /\ hostTasks = <<>> /\ running = {}
    /\ engineDb = "absent" /\ projectDb = "absent"
    /\ procs = [p \in Procs |-> IdleProc]
    /\ config = Config(TRUE, TRUE, TRUE)
    /\ env = Environment(TRUE, TRUE, Destinations, TRUE, TRUE)

LoneIdle ==
    /\ pathsResult = NotCalled(NoPaths)
    /\ phantomResult = NotCalled(FALSE)

\* Path resolution on every workspace.
InitPaths ==
    /\ workspaceFolders \in Workspaces
    /\ diagnostics = <<>>
    /\ manifest = NoFile /\ vscodeDir = FALSE /\ lastInject = NoInject
    /\ HandlersIdle /\ LoneIdle
SpecPaths == InitPaths /\ [][ResolvePaths]_vars

\* Phantom-error detection on every list of diagnostics.
InitDiag ==
    /\ workspaceFolders = GoodWorkspace
    /\ diagnostics \in DiagnosticLists
    /\ manifest = NoFile /\ vscodeDir = FALSE /\ lastInject = NoInject
    /\ HandlersIdle /\ LoneIdle
SpecDiag == InitDiag /\ [][CheckPhantom]_vars

\* Task injection on every manifest file.
InitInject ==
    /\ workspaceFolders = GoodWorkspace
    /\ diagnostics = <<>>
    /\ manifest \in Manifests /\ vscodeDir = manifest.exists /\ lastInject = NoInject
    /\ HandlersIdle /\ LoneIdle
SpecInject == InitInject /\ [][LoneInject]_vars

\* The commands at work: they are invoked in any order and overlap.
StartManifests ==
    {NoFile,
     TextFile(FALSE, Json("object", "version 2.0.0", NoTaskList("other"))),
     TextFile(FALSE, Json("object", "version 2.0.0, inputs",
        TaskList(<<UserTask(TASK_GENERATE, "old"), UserTask("Foo", "make"), UserTask(TASK_GENERATE, "older")>>)))}

Init ==
    /\ workspaceFolders \in {GoodWorkspace, NoEngineWorkspace}
    /\ diagnostics = <<>>
    /\ manifest \in StartManifests /\ vscodeDir = manifest.exists /\ lastInject = NoInject
    /\ HandlersIdle /\ LoneIdle

Next ==
    \/ \E p \in Procs :
        \/ SetupStart(p)
        \/ SetupTimer(p)
        \/ RefreshFilesStart(p)
        \/ RefreshHeadersStart(p)
        \/ FetchResolves(p)
    \/ HostReloadsTasks

Spec == Init /\ [][Next]_vars

\* Setup in every environment.
InitSetup ==
    /\ workspaceFolders \in {GoodWorkspace, NoEngineWorkspace}
    /\ diagnostics = <<>>
    /\ manifest \in StartManifests /\ vscodeDir = manifest.exists /\ lastInject = NoInject
    /\ config \in {Config(g, TRUE, TRUE) : g \in BOOLEAN}
    /\ env \in {Environment(rc, rf, w, TRUE, TRUE) : rc \in BOOLEAN, rf \in BOOLEAN, w \in SUBSET Destinations}
    /\ hostTasks = <<>> /\ running = {}
    /\ engineDb = "absent" /\ projectDb = "absent"
    /\ procs = [p \in Procs |-> IdleProc]
    /\ LoneIdle

NextSetup ==
    \/ \E p \in Procs :
        \/ SetupStart(p)
        \/ SetupTimer(p)
        \/ FetchResolves(p)
    \/ HostReloadsTasks

SpecSetup == InitSetup /\ [][NextSetup]_vars

\* The watchers at work, on a project that has been set up.
InitEvents ==
    /\ workspaceFolders \in {GoodWorkspace, NoEngineWorkspace}
    /\ diagnostics \in {<<>>, <<PhantomDiagnostic>>}
    /\ manifest = injectTasks(GoodPaths, NoFile).file /\ vscodeDir = TRUE /\ lastInject = NoInject
    /\ config \in {Config(TRUE, TRUE, TRUE), Config(TRUE, FALSE, FALSE)}
    /\ env \in {Environment(TRUE, TRUE, Destinations, c, r) : c \in BOOLEAN, r \in BOOLEAN}
    /\ hostTasks = WorkspaceTasks(manifest) /\ running = {}
    /\ engineDb = "absent" /\ projectDb = "absent"
    /\ procs = [p \in Procs |-> IdleProc]
    /\ LoneIdle

NextEvents ==
    \E p \in Procs :
        \/ RefreshFilesStart(p)
        \/ FetchResolves(p)
        \/ OnSave(p)
        \/ OnTaskEnd(p)
        \/ RestartSettles(p)

SpecEvents == InitEvents /\ [][NextEvents]_vars

\* ---------------------------------------------------------------- claims
RequiredLabels == {TASK_GENERATE, TASK_UHT, TASK_RESTART, TASK_COMPOUND}

\* The task list a manifest file holds; none when the file is no manifest
\* object (a missing or falsy tasks member counts as the empty list).
IsManifest(file) ==
    /\ file.exists /\ file.json.k = "object"
    /\ file.json.tasks.t \in {"array", "missing", "falsy"}
ItemsOf(file) == IF file.json.tasks.t = "array" THEN file.json.tasks.items ELSE <<>>
Labelled(items, label) == {i \in 1..Len(items) : items[i].k = "object" /\ items[i].label = label}
IsRequired(item) == item.k = "object" /\ item.label \in RequiredLabels
IsUnrelated(item) == ~IsRequired(item)
NoDuplicateLabels(items) ==
    \A i, j \in 1..Len(items) :
        (i # j /\ items[i].k = "object" /\ items[j].k = "object" /\ items[i].label # Undefined)
            => items[i].label # items[j].label
InjectCompleted == lastInject.n >= 1 /\ ~lastInject.threw

\* C1 as stated: after injectTasks completes on an existing manifest, the
\* persisted manifest holds every pre-existing unrelated task unchanged and
\* in order, each of the four required labels exactly once, and no
\* duplicate label.
C1_AsStated ==
    (InjectCompleted /\ IsManifest(lastInject.before)) =>
        /\ IsManifest(manifest)
        /\ SelectSeq(ItemsOf(manifest), IsUnrelated) = SelectSeq(ItemsOf(lastInject.before), IsUnrelated)
        /\ \A l \in RequiredLabels : Cardinality(Labelled(ItemsOf(manifest), l)) = 1
        /\ NoDuplicateLabels(ItemsOf(manifest))

\* C1 as amended: after injectTasks completes on an existing manifest, the
\* persisted manifest holds every pre-existing unrelated task unchanged and
\* in order, and each of the four required labels as often as before but at
\* least once (so exactly once when it was there at most once); the first
\* task of each required label is the new definition, the others of that
\* label are the pre-existing ones, and no other task is added.
C1_InjectPreserves ==
    (InjectCompleted /\ IsManifest(lastInject.before)) =>
        LET old == ItemsOf(lastInject.before)
            new == ItemsOf(manifest)
            nts == newTasks(getWorkspacePaths(workspaceFolders))
        IN /\ IsManifest(manifest)
           /\ SelectSeq(new, IsUnrelated) = SelectSeq(old, IsUnrelated)
           /\ \A k \in 1..Len(nts) :
                LET l == nts[k].label
                    before == Cardinality(Labelled(old, l))
                    first == CHOOSE i \in Labelled(new, l) : \A j \in Labelled(new, l) : i <= j
                IN /\ Cardinality(Labelled(new, l)) = IF before = 0 THEN 1 ELSE before
                   /\ new[first] = nts[k]
                   /\ before <= 1 => Cardinality(Labelled(new, l)) = 1
           /\ Len(new) = Len(old) + Cardinality({l \in RequiredLabels : Labelled(old, l) = {}})
           /\ NoDuplicateLabels(old) => NoDuplicateLabels(new)

\* C1's case: an injection into a manifest that held an unrelated task, a
\* stale required task and no duplicate, and that changed the file.
C1_Witness ==
    /\ InjectCompleted /\ IsManifest(lastInject.before)
    /\ Labelled(ItemsOf(lastInject.before), "Foo") # {}
    /\ Labelled(ItemsOf(lastInject.before), TASK_UHT) # {}
    /\ NoDuplicateLabels(ItemsOf(lastInject.before))
    /\ Len(ItemsOf(manifest)) = Len(ItemsOf(lastInject.before)) + 3

\* C3: whatever the manifest file holds, injectTasks completes and persists a
\* manifest with the four required tasks; for malformed content it is the
\* default version tag plus only the four.
C3_LoadNeverAborts ==
    lastInject.n >= 1 =>
        /\ ~lastInject.threw
        /\ IsManifest(manifest)
        /\ \A l \in RequiredLabels : Labelled(ItemsOf(manifest), l) # {}
        /\ (lastInject.n = 1 /\ lastInject.before.exists /\ lastInject.before.json.k = "invalid") =>
                manifest = TextFile(TRUE, Json("object", "version 2.0.0",
                                TaskList(newTasks(getWorkspacePaths(workspaceFolders)))))

\* C2: once injectTasks has run, no later run, of Setup or of Refresh
\* Headers and however the invocations overlap, changes the manifest file:
\* the file after the last run is the file after the first.
C2_InjectIdempotent == [][lastInject.n >= 1 => manifest' = manifest]_vars

\* C2's case: injectTasks has run again, from Refresh Headers, while a Setup
\* that injected is still waiting, on a manifest that held tasks before.
C2_Witness ==
    /\ lastInject.n >= 2 /\ ~lastInject.threw
    /\ lastInject.before = manifest
    /\ Labelled(ItemsOf(manifest), "Foo") # {}
    /\ \E p, q \in Procs :
        /\ procs[p].kind = "setup" /\ procs[p].pc \in {"delay", "fetch"}
        /\ procs[q].kind = "refreshHeaders" /\ Has(procs[q].log, "injectTasks")

\* C5: when fetchTasks resolves, triggerTask requests exactly one execution,
\* of the first task of the host's list that has the label, when there is
\* one; otherwise it reports an error and requests none.
C5_TriggerTask ==
    [][\A p \in Procs :
        (procs[p].pc = "fetch" /\ procs'[p].pc = "done") =>
            LET label == TriggerLabel(procs[p].kind)
                added == SubSeq(procs'[p].log, Len(procs[p].log) + 1, Len(procs'[p].log))
                named == {i \in 1..Len(hostTasks) : hostTasks[i].name = label}
            IN IF named = {}
               THEN /\ Count(added, "executeTask") = 0
                    /\ Count(added, "error:taskNotFound") = 1
                    /\ running' = running
               ELSE /\ Count(added, "executeTask") = 1
                    /\ Count(added, "error:taskNotFound") = 0
                    /\ \E i \in named :
                        /\ \A j \in named : i <= j
                        /\ added[1] = ExecEv(hostTasks[i])
                    /\ label \in running'
    ]_vars

\* C5's case: a trigger that found two tasks of the label in the host's
\* list, and one that found none.
C5_Witness ==
    \E p, q \in Procs :
        /\ procs[p].pc = "done" /\ Has(procs[p].log, "executeTask")
        /\ Cardinality({i \in 1..Len(hostTasks) : hostTasks[i].name = TriggerLabel(procs[p].kind)}) = 2
        /\ \E i \in 1..Len(procs[p].log) : procs[p].log[i] = ExecEv(hostTasks[1])
        /\ procs[q].pc = "done" /\ Has(procs[q].log, "error:taskNotFound")

\* C7: hasPhantomErrors is true exactly when some diagnostic is an error
\* whose code, a string or the value of a structured code as a string, is
\* one of the two codes; it is false for no diagnostics, for diagnostics
\* that are no errors, and for errors with another code or none.
PhantomCodes == {"ovl_deleted_init", "missing_type_specifier"}
CodeIsPhantom(c) ==
    \/ c.t = "string" /\ c.s \in PhantomCodes
    \/ c.t = "object" /\ c.vt = "string" /\ c.s \in PhantomCodes
    \/ c.t = "object" /\ c.vt = "number" /\ ToString(c.n) \in PhantomCodes
C7_PhantomErrors ==
    phantomResult.done =>
        LET ds == {diagnostics[i] : i \in 1..Len(diagnostics)} IN
        /\ phantomResult.value <=> \E d \in ds : d.severity = SeverityError /\ CodeIsPhantom(d.code)
        /\ ds = {} => ~phantomResult.value
        /\ (\A d \in ds : d.severity # SeverityError) => ~phantomResult.value
        /\ (\A d \in ds : ~CodeIsPhantom(d.code)) => ~phantomResult.value

\* C7's case: the only phantom error stands second, behind a warning with
\* the same code, and its code is structured.
C7_Witness ==
    /\ phantomResult.done /\ phantomResult.value
    /\ Len(diagnostics) = 2
    /\ diagnostics[1].severity = SeverityWarning /\ CodeIsPhantom(diagnostics[1].code)
    /\ diagnostics[2].severity = SeverityError /\ diagnostics[2].code.t = "object"

\* C4: getWorkspacePaths returns null when no scanned folder holds a
\* descriptor or none holds the marker; with one folder holding a descriptor
\* and one holding the marker it returns these folders and the descriptor's
\* file name minus its extension, in whatever order the folders stand.
MinusExtension(fileName) == SubSeq(fileName, 1, Len(fileName) - Len(<<DOT, UPROJECT>>))
Descriptors(folder) == SelectSeq(folder.files, IsDescriptor)
C4_PathResolution ==
    pathsResult.done =>
        LET list == workspaceFolders.list
            scanned == {i \in 1..Len(list) : workspaceFolders.defined /\ list[i].stat = "dir"}
            withDescriptor == {i \in scanned : Descriptors(list[i]) # <<>>}
            withMarker == {i \in scanned : list[i].buildBat}
        IN /\ (withDescriptor = {} \/ withMarker = {}) => pathsResult.value = NoPaths
           /\ (Cardinality(withDescriptor) = 1 /\ Cardinality(withMarker) = 1) =>
                \E i \in withDescriptor : \E j \in withMarker :
                    pathsResult.value =
                        [found |-> TRUE, projectRoot |-> list[i].fsPath, engineRoot |-> list[j].fsPath,
                         projectName |-> MinusExtension(Descriptors(list[i])[1])]

\* The same with the folders left out whose first descriptor is the file
\* named .uproject (a name path.parse keeps whole).
C4_ButBareDescriptor ==
    (\A i \in 1..Len(workspaceFolders.list) :
        LET ds == Descriptors(workspaceFolders.list[i]) IN ds # <<>> => ds[1] # BareUproject)
    => C4_PathResolution

\* C8: a Setup run whose paths resolve injects the tasks, then waits, then
\* attempts the trigger, then reports initiation, whatever the config
\* install did; one whose paths do not resolve reports the error, writes no
\* file and requests no execution.
InOrder(log, names) ==
    \E f \in [1..Len(names) -> 1..Len(log)] :
        /\ \A k \in 1..Len(names) : log[f[k]].e = names[k]
        /\ \A k \in 1..(Len(names) - 1) : f[k] < f[k + 1]
C8_SetupPipeline ==
    \A p \in Procs :
        (procs[p].kind = "setup" /\ procs[p].pc = "done") =>
            IF getWorkspacePaths(workspaceFolders).found
            THEN /\ InOrder(procs[p].log, <<"injectTasks", "delay", "fetchTasks", "info:setupInitiated">>)
                 /\ procs[p].log[Len(procs[p].log)].e = "info:setupInitiated"
                 /\ Has(procs[p].log, "executeTask") \/ Has(procs[p].log, "error:taskNotFound")
            ELSE /\ procs[p].log = <<Ev("error:missingPaths")>>
                 /\ lastInject.n = 0

\* C9: in the config install of Setup, a template that cannot be read gives
\* an error and no write is attempted; when both are read, each of the three
\* writes is attempted whether or not another failed, and a failed
\* engine-root write gives a warning only.
Attempted(log, dest) == Has(log, "write:" \o dest) \/ Has(log, "write:" \o dest \o ":failed")
C9_ConfigInstall ==
    \A p \in Procs :
        (procs[p].kind = "setup" /\ config.generateConfigs /\ ~Has(procs[p].log, "error:missingPaths")) =>
            IF ~env.readClangd \/ ~env.readFormat
            THEN /\ Has(procs[p].log, "error:templates")
                 /\ \A dest \in Destinations : ~Attempted(procs[p].log, dest)
            ELSE /\ \A dest \in Destinations : Attempted(procs[p].log, dest)
                 /\ Has(procs[p].log, "write:engine/.clangd:failed") =>
                        (Has(procs[p].log, "warning:engine") /\ ~Has(procs[p].log, "error:templates"))

\* C6: in a sync run, a source that exists and is copied leaves the
\* destination equal to it and the restart is requested after the copy; a
\* failed copy gives an error and no restart; an absent source gives a
\* warning, no write and no restart. The restart is requested only after a
\* copy that succeeded, and the copy-failure error is reported only when the
\* copy failed.
C6_Sync ==
    [][\A p \in Procs :
        (procs'[p] # procs[p] /\ procs'[p].kind = "taskEnd") =>
            LET log == procs'[p].log
                started == procs[p].pc # "restart"
            IN /\ (started /\ Has(log, "copyFile")) =>
                    (projectDb' = engineDb' /\ engineDb' # "absent"
                     /\ InOrder(log, <<"copyFile", "restart">>))
               /\ Has(log, "copyFile:failed") => (Has(log, "error:copyFailed") /\ ~Has(log, "restart"))
               /\ Has(log, "warning:noSource") =>
                    (engineDb' = "absent" /\ projectDb' = projectDb /\ log = <<Ev("warning:noSource")>>)
               /\ Has(log, "restart") => InOrder(log, <<"copyFile", "restart">>)
               /\ Has(log, "error:copyFailed") => Has(log, "copyFile:failed")
    ]_vars

\* C10: a save leads to at most one trigger of the compound task, and to one
\* exactly when the auto-fix flag is on, the paths resolve, the saved file
\* is a header under <projectRoot>/Source and phantom errors are reported;
\* otherwise the handler requests nothing and shows nothing.
Components(path) ==
    LET RECURSIVE Split(_, _, _)
        Split(done, cur, i) ==
            IF i > Len(path) THEN (IF cur = <<>> THEN done ELSE Append(done, cur))
            ELSE IF path[i] = SEP THEN Split(IF cur = <<>> THEN done ELSE Append(done, cur), <<>>, i + 1)
            ELSE Split(done, Append(cur, path[i]), i + 1)
    IN Split(<<>>, <<>>, 1)
IsUnder(path, dir) ==
    LET pc == Components(path)
        dc == Components(dir)
    IN Len(pc) > Len(dc) /\ SubSeq(pc, 1, Len(dc)) = dc
C10_SaveTrigger ==
    \A p \in Procs :
        procs[p].kind = "save" =>
            LET paths == getWorkspacePaths(workspaceFolders)
                fileName == procs[p].arg.fileName
                expected == /\ config.autoFixOnSave
                            /\ paths.found
                            /\ EndsWith(fileName, <<DOT, "h">>)
                            /\ IsUnder(fileName, paths.projectRoot \o <<SEP, "Source">>)
                            /\ hasPhantomErrors(diagnostics)
            IN /\ Count(procs[p].log, "fetchTasks") <= 1
               /\ Count(procs[p].log, "executeTask") <= 1
               /\ Has(procs[p].log, "fetchTasks") <=> expected
               /\ ~expected => procs[p].log = <<>>

====
